---- MODULE Spec2Model ----
(***************************************************************************)
(* Reject-domainset build (Build/build-reject-domainset.ts) and the asset  *)
(* fetcher with fallback URLs (Build/lib/fetch-assets.ts).                  *)
(*                                                                         *)
(* Strings are sequences of one-character strings, so that splitting into  *)
(* labels, stripping the leading dot and substring search are computed and *)
(* not assumed.  The trie, the keyword filter and the deduper are imported  *)
(* by the build script from ./lib/trie, ./lib/aho-corasick and             *)
(* ./lib/domain-deduper; they are modelled from their specification.       *)
(***************************************************************************)
EXTENDS Integers, Sequences, FiniteSets, TLC

(***************************************************************************)
(* Bounds of the model.                                                    *)
(***************************************************************************)
\* how many entries one remote producer may yield for one of its lists
MaxYield == 1
\* how many times buildRejectDomainSet is invoked in one process
MaxRuns == 2
\* how many fallback URLs fetchAssetsWithout304 is called with
MaxFallbacks == 2
\* the longest response body, in characters
MaxBody == 2
\* how long the clock of a fetch runs, in ticks
MaxTicks == 6

(***************************************************************************)
(* Strings.                                                                *)
(***************************************************************************)
DOT == "."

\* s.endsWith(t)
EndsWith(s, t) ==
    /\ Len(t) <= Len(s)
    /\ SubSeq(s, Len(s) - Len(t) + 1, Len(s)) = t

\* s.includes(t): t is a contiguous substring of s
Includes(s, t) ==
    \E i \in 0..(Len(s) - Len(t)) : SubSeq(s, i + 1, i + Len(t)) = t

\* the entry has the suffix (wildcard) form: it starts with a dot
IsSuffixForm(s) == s # <<>> /\ s[1] = DOT

\* the entry without its leading dot marker
StripDot(s) == IF IsSuffixForm(s) THEN Tail(s) ELSE s

\* `.${s}`
WithDot(s) == <<DOT>> \o s

RECURSIVE SplitFrom(_, _, _)
SplitFrom(s, i, cur) ==
    IF i > Len(s) THEN <<cur>>
    ELSE IF s[i] = DOT THEN <<cur>> \o SplitFrom(s, i + 1, <<>>)
    ELSE SplitFrom(s, i + 1, Append(cur, s[i]))

\* s.split('.')
Split(s) == SplitFrom(s, 1, <<>>)

RECURSIVE Join(_)
\* labels.join('.')
Join(labels) ==
    IF Len(labels) = 0 THEN <<>>
    ELSE IF Len(labels) = 1 THEN labels[1]
    ELSE labels[1] \o <<DOT>> \o Join(Tail(labels))

Reverse(q) == [i \in 1..Len(q) |-> q[Len(q) + 1 - i]]

\* an empty string or a bare dot: an entry with no labels
Malformed(s) == StripDot(s) = <<>>

\* the suffix entry .X covers d: d (leading dot stripped) is X or ends with .X
Covers(X, d) == StripDot(d) = X \/ EndsWith(StripDot(d), WithDot(X))

(***************************************************************************)
(* Domain trie (./lib/trie): nodes are label paths read right to left; a   *)
(* node is suffix-terminal or exact-terminal when an entry of that form    *)
(* ends there.                                                             *)
(***************************************************************************)
\* the trie path of an entry: its labels, TLD first
PathOf(s) == Reverse(Split(StripDot(s)))

PathPrefixes(p) == {SubSeq(p, 1, i) : i \in 0..Len(p)}

createTrie(entries) ==
    LET ok == {e \in entries : ~Malformed(e)}
    IN  [nodes  |-> UNION {PathPrefixes(PathOf(e)) : e \in ok},
         suffix |-> {PathOf(e) : e \in {x \in ok : IsSuffixForm(x)}},
         exact  |-> {PathOf(e) : e \in {x \in ok : ~IsSuffixForm(x)}}]

\* the nodes visited when walking the trie along the labels of domain
Visited(trie, domain) ==
    {p \in PathPrefixes(PathOf(domain)) : p # <<>> /\ p \in trie.nodes}

\* trie.find(domain, suffixOnly): the inserted entries met along domain's path
find(trie, domain, suffixOnly) ==
    LET seen == Visited(trie, domain)
    IN  {WithDot(Join(Reverse(p))) : p \in seen \cap trie.suffix}
        \cup (IF suffixOnly THEN {}
              ELSE {Join(Reverse(p)) : p \in seen \cap trie.exact})

\* trie.contains(domain): an inserted suffix entry lies on domain's path
contains(trie, domain) == Visited(trie, domain) \cap trie.suffix # {}

\* trie.has(domain): domain was inserted verbatim
has(trie, domain) ==
    IF IsSuffixForm(domain) THEN PathOf(domain) \in trie.suffix
    ELSE PathOf(domain) \in trie.exact

(***************************************************************************)
(* Keyword automaton (./lib/aho-corasick): states are the prefixes of the  *)
(* keywords, with failure links and propagated match markers.              *)
(***************************************************************************)
KwStates(K) == UNION {{SubSeq(k, 1, i) : i \in 0..Len(k)} : k \in K} \cup {<<>>}

\* the failure link of a state: its longest proper suffix that is a state
KwFail(K, s) ==
    LET cands == {i \in 2..(Len(s) + 1) : SubSeq(s, i, Len(s)) \in KwStates(K)}
        first == CHOOSE i \in cands : \A j \in cands : i <= j
    IN  SubSeq(s, first, Len(s))

RECURSIVE KwMatch(_, _)
\* a state is a match state if it is a keyword or its failure chain has one
KwMatch(K, s) ==
    \/ s \in K
    \/ s # <<>> /\ KwMatch(K, KwFail(K, s))

RECURSIVE KwGoto(_, _, _)
\* the transition on character ch, following failure links on a miss
KwGoto(K, s, ch) ==
    IF Append(s, ch) \in KwStates(K) THEN Append(s, ch)
    ELSE IF s = <<>> THEN <<>>
    ELSE KwGoto(K, KwFail(K, s), ch)

RECURSIVE KwScan(_, _, _, _)
KwScan(K, text, i, s) ==
    IF KwMatch(K, s) THEN TRUE
    ELSE IF i > Len(text) THEN FALSE
    ELSE KwScan(K, text, i + 1, KwGoto(K, s, text[i]))

\* createKeywordFilter(K).search(text)
search(K, text) == KwScan(K, text, 1, <<>>)

(***************************************************************************)
(* Deduplicator (./lib/domain-deduper).                                    *)
(***************************************************************************)
\* the entry is dropped: a suffix entry ends on a proper ancestor of its
\* node, or it is the exact form of a suffix entry ending on its own node
DedupeDrops(trie, e) ==
    LET p == PathOf(e)
    IN  \/ \E i \in 1..(Len(p) - 1) : SubSeq(p, 1, i) \in trie.suffix
        \/ ~IsSuffixForm(e) /\ p \in trie.suffix

domainDeduper(entries) ==
    LET trie == createTrie(entries)
    IN  {e \in entries : ~DedupeDrops(trie, e)}

(***************************************************************************)
(* Source data of a build run.  Labels are one or two characters long and  *)
(* "c" plays the top-level domain.                                         *)
(***************************************************************************)
d_c    == <<"c">>
d_bc   == <<"b", ".", "c">>
d_abc  == <<"a", ".", "b", ".", "c">>
d_ac   == <<"a", ".", "c">>
d_ab_c == <<"a", "b", ".", "c">>
EMPTY  == <<>>
BARE   == <<DOT>>

\* ./lib/reject-data-source: the built-in whitelist and enforced blacklist
PREDEFINED_WHITELIST == {WithDot(d_ab_c)}
PREDEFINED_ENFORCED_BACKLIST == {d_ac}

\* the malformed entries a blacklist source may hold when they are admitted
Junk(m) == IF m THEN {EMPTY, BARE} ELSE {}

\* what processHosts, processFilterRules and getPhishingDomains may resolve to
HostsSrc(m)       == {d_abc, d_ab_c} \cup Junk(m)
FilterBlackSrc(m) == {WithDot(d_abc), d_bc} \cup Junk(m)
FilterWhiteSrc(m) == {WithDot(d_bc), d_bc}
ExceptWhiteSrc(m) == {WithDot(d_ac)}
ExceptBlackSrc(m) == {d_abc}
PhishFullSrc(m)   == {d_ac} \cup Junk(m)
PhishPureSrc(m)   == {d_bc} \cup (IF m THEN {EMPTY} ELSE {})

\* the lists of at most MaxYield entries drawn from a source
Yields(src) == {y \in SUBSET src : Cardinality(y) <= MaxYield}

\* Source/domainset/reject_sukka.conf: its lines
COMMENT == <<"#">>
SukkaConfFiles(m) ==
    {{COMMENT}, {COMMENT, EMPTY, WithDot(d_ab_c)}}
        \cup (IF m THEN {{COMMENT, BARE}} ELSE {})

\* ./lib/process-line: a blank line or a comment yields null (here the
\* empty string, which is as falsy), any other line yields itself
processLine(line) == IF line = <<>> \/ line[1] = "#" THEN <<>> ELSE line

\* Source/non_ip/reject.conf: lines as [type, keyword] after split(',')
KEYWORD == "DOMAIN-KEYWORD"
SUFFIX  == "DOMAIN-SUFFIX"
PLAIN   == "DOMAIN"
Line(type, keyword) == <<type, keyword>>
RejectConfFiles ==
    { {Line(PLAIN, d_c)},
      {Line(KEYWORD, <<" ", "a", "b">>)},
      {Line(KEYWORD, <<"a", ".", "c">>), Line(KEYWORD, <<".", "b">>)},
      {Line(SUFFIX, d_bc)},
      {Line(SUFFIX, <<"a", ".", "b", ".", "c", " ">>), Line(KEYWORD, <<"a", "b">>)} }

RECURSIVE TrimStart(_)
TrimStart(s) == IF s # <<>> /\ s[1] = " " THEN TrimStart(Tail(s)) ELSE s
RECURSIVE TrimEnd(_)
TrimEnd(s) ==
    IF s # <<>> /\ s[Len(s)] = " " THEN TrimEnd(SubSeq(s, 1, Len(s) - 1)) ELSE s
\* keyword.trim()
Trim(s) == TrimEnd(TrimStart(s))

(***************************************************************************)
(* State.                                                                  *)
(***************************************************************************)
VARIABLES
    \* module-level sets of build-reject-domainset.ts
    filterRuleWhitelistDomainSets, domainKeywordsSet, domainSuffixSet,
    \* locals of the running buildRejectDomainSet
    domainSets, shouldStop, dudupedDominArray,
    \* control: position in buildRejectDomainSet, producers still pending,
    \* invocations so far, tries created so far in this run
    pc, pending, runs, tries,
    \* environment: the two local files, whether producers may yield
    \* malformed entries, how many invocations the process makes
    sukkaConf, rejectConf, malformed, runLimit,
    \* history: what each producer resolved to, the whitelist when the
    \* run began, and domainSets when previousSize was last taken (line 121)
    yielded, startWhite, previous,
    \* the same run replayed in a fresh process (module-level sets as loaded)
    freshWhite, freshKeywords, freshSuffixes, freshDomainSets, freshOutput,
    \* fetchAssetsWithout304: the attempts (one per URL), controller.signal
    \* .aborted, the attempts in the order they fulfilled, the promise the
    \* call returned, elapsed time in ticks, and the number of fallback URLs
    attempts, aborted, fulfilledOrder, result, clock, fallbacks

buildVars == <<filterRuleWhitelistDomainSets, domainKeywordsSet, domainSuffixSet,
               domainSets, shouldStop, dudupedDominArray, pc, pending, runs,
               tries, sukkaConf, rejectConf, malformed, runLimit, yielded,
               startWhite, previous, freshWhite, freshKeywords, freshSuffixes,
               freshDomainSets, freshOutput>>
fetchVars == <<attempts, aborted, fulfilledOrder, result, clock, fallbacks>>
vars == <<buildVars, fetchVars>>

Producers == {"hosts", "filters", "exceptions", "phishing"}
NoYield == [p \in Producers |-> <<>>]

(***************************************************************************)
(* Handlers of buildRejectDomainSet, as functions of the sets they touch.  *)
(***************************************************************************)
\* hosts.forEach(host => { if (host) domainSets.add(host) })
AddTruthy(set, items) == set \cup {h \in items : h # <<>>}

\* black.forEach(i => domainSets.add(i)), white.forEach(i => ...add(i))
AddAll(set, items) == set \cup items

\* purePhishingDomains.forEach(suffix => domainSets.add(`.${suffix}`))
AddDotted(set, items) == set \cup {WithDot(x) : x \in items}

\* trie0 = createTrie(whitelist); every entry found for an enforced
\* blacklist entry is deleted from the whitelist
DropEnforced(white) ==
    LET trie0 == createTrie(white)
    IN  white \ UNION {find(trie0, e, FALSE) : e \in PREDEFINED_ENFORCED_BACKLIST}

\* for await (line of reject_sukka.conf) { l = processLine(line); if (l) add }
AddSukka(set, file) == set \cup {l \in {processLine(x) : x \in file} : l # <<>>}

\* the DOMAIN-KEYWORD / DOMAIN-SUFFIX values of reject.conf, trimmed
ConfValues(file, type) == {Trim(l[2]) : l \in {x \in file : x[1] = type}}

RECURSIVE SeqOf(_)
\* the entries of a set in iteration order
SeqOf(set) ==
    IF set = {} THEN <<>>
    ELSE LET x == CHOOSE y \in set : TRUE IN <<x>> \o SeqOf(set \ {x})

\* the loop body with the keyword test reached on the exact branch only
LoopDeletesKeywordMissed(trieWhite, K, domain) ==
    IF domain # <<>> /\ domain[1] = DOT
    THEN contains(trieWhite, domain)
    ELSE has(trieWhite, WithDot(domain)) \/ search(K, domain)

\* the body of the loop over domainSets: is this entry deleted
LoopDeletes(trieWhite, K, domain) ==
    IF domain # <<>> /\ domain[1] = DOT
    THEN contains(trieWhite, domain) \/ search(K, domain)
    ELSE has(trieWhite, WithDot(domain)) \/ search(K, domain)

RECURSIVE ReconcileLoop(_, _, _, _, _)
\* for (const domain of domainSets) { ... domainSets.delete(domain) ... }
ReconcileLoop(order, i, set, trieWhite, K) ==
    IF i > Len(order) THEN set
    ELSE IF LoopDeletes(trieWhite, K, order[i])
         THEN ReconcileLoop(order, i + 1, set \ {order[i]}, trieWhite, K)
         ELSE ReconcileLoop(order, i + 1, set, trieWhite, K)

\* '* Dedupe from black keywords/suffixes': trie1 is built once from the
\* blacklist, queried with every black suffix and every whitelist entry,
\* then the loop consults the whitelist trie and the keyword filter
FilterStage(black, white, K, sufs) ==
    LET trie1 == createTrie(black)
        byBlackSuffix == UNION {find(trie1, s, TRUE) : s \in sufs}
        byWhite == UNION {find(trie1, w, TRUE) : w \in white}
        left == (black \ byBlackSuffix) \ byWhite
    IN  ReconcileLoop(SeqOf(left), 1, left, createTrie(white), K)

\* the deduper's result discarded: the set is written as it stands
DedupeStageSkipped(black) == black

\* only the suffix entries of the deduper's result are kept
DedupeStageSuffixOnly(black) == {e \in domainDeduper(black) : IsSuffixForm(e)}

\* domainDeduper(Array.from(domainSets))
DedupeStage(black) == domainDeduper(black)

(***************************************************************************)
(* fetchAssetsWithout304 is idle while the build is modelled.              *)
(***************************************************************************)
FetchIdle ==
    /\ attempts = <<>>
    /\ aborted = FALSE
    /\ fulfilledOrder = <<>>
    /\ result = [state |-> "none", text |-> <<>>]
    /\ clock = 0
    /\ fallbacks = 0

(***************************************************************************)
(* buildRejectDomainSet.                                                   *)
(***************************************************************************)
BuildInit(m, limit) ==
    /\ filterRuleWhitelistDomainSets = PREDEFINED_WHITELIST
    /\ domainKeywordsSet = {}
    /\ domainSuffixSet = {}
    /\ domainSets = {}
    /\ shouldStop = FALSE
    /\ dudupedDominArray = {}
    /\ pc = "idle"
    /\ pending = {}
    /\ runs = 0
    /\ tries = {}
    /\ malformed = m
    /\ runLimit = limit
    /\ yielded = NoYield
    /\ startWhite = {}
    /\ previous = {}
    /\ freshWhite = PREDEFINED_WHITELIST
    /\ freshKeywords = {}
    /\ freshSuffixes = {}
    /\ freshDomainSets = {}
    /\ freshOutput = {}

LocalFiles(m) ==
    /\ sukkaConf \in SukkaConfFiles(m)
    /\ rejectConf \in RejectConfFiles

Init == BuildInit(FALSE, MaxRuns) /\ LocalFiles(FALSE) /\ FetchIdle

envVars == <<sukkaConf, rejectConf, malformed, runLimit>>

\* buildRejectDomainSet() is called: domainSets is a new Set and every
\* producer is started; the module-level sets are what they are
Start ==
    /\ pc \in {"idle", "done"}
    /\ runs < runLimit
    /\ runs' = runs + 1
    /\ pc' = "download"
    /\ pending' = Producers
    /\ domainSets' = {}
    /\ shouldStop' = FALSE
    /\ dudupedDominArray' = {}
    /\ tries' = {}
    /\ yielded' = NoYield
    /\ startWhite' = filterRuleWhitelistDomainSets
    /\ previous' = {}
    /\ freshWhite' = PREDEFINED_WHITELIST
    /\ freshKeywords' = {}
    /\ freshSuffixes' = {}
    /\ freshDomainSets' = {}
    /\ freshOutput' = {}
    /\ UNCHANGED <<filterRuleWhitelistDomainSets, domainKeywordsSet,
                   domainSuffixSet, envVars, fetchVars>>

Resolve(p, white, black, pure) ==
    /\ pc = "download"
    /\ p \in pending
    /\ pending' = pending \ {p}
    /\ yielded' = [yielded EXCEPT ![p] = [white |-> white, black |-> black, pure |-> pure]]
    /\ UNCHANGED <<domainKeywordsSet, domainSuffixSet, dudupedDominArray, pc,
                   runs, tries, envVars, startWhite, previous, freshKeywords,
                   freshSuffixes, freshOutput, fetchVars>>

\* processHosts(...).then(hosts => ...)
HostsDone ==
    \E hosts \in Yields(HostsSrc(malformed)) :
        /\ Resolve("hosts", {}, hosts, {})
        /\ domainSets' = AddTruthy(domainSets, hosts)
        /\ freshDomainSets' = AddTruthy(freshDomainSets, hosts)
        /\ UNCHANGED <<filterRuleWhitelistDomainSets, freshWhite, shouldStop>>

\* processFilterRules(...).then(({ white, black, foundDebugDomain }) => ...)
FiltersDone ==
    \E white \in Yields(FilterWhiteSrc(malformed)),
       black \in Yields(FilterBlackSrc(malformed)),
       foundDebugDomain \in BOOLEAN :
        /\ Resolve("filters", white, black, {})
        /\ shouldStop' = (shouldStop \/ foundDebugDomain)
        /\ filterRuleWhitelistDomainSets' = AddAll(filterRuleWhitelistDomainSets, white)
        /\ freshWhite' = AddAll(freshWhite, white)
        /\ domainSets' = AddAll(domainSets, black)
        /\ freshDomainSets' = AddAll(freshDomainSets, black)

\* the exceptions / exclusions lists: white and black both go to the whitelist
ExceptionsDone ==
    \E white \in Yields(ExceptWhiteSrc(malformed)),
       black \in Yields(ExceptBlackSrc(malformed)) :
        /\ Resolve("exceptions", white, black, {})
        /\ filterRuleWhitelistDomainSets' =
               AddAll(AddAll(filterRuleWhitelistDomainSets, white), black)
        /\ freshWhite' = AddAll(AddAll(freshWhite, white), black)
        /\ UNCHANGED <<domainSets, freshDomainSets, shouldStop>>

\* getPhishingDomains().then(([purePhishingDomains, fullDomainSet]) => ...)
PhishingDone ==
    \E pure \in Yields(PhishPureSrc(malformed)),
       full \in Yields(PhishFullSrc(malformed)) :
        /\ Resolve("phishing", {}, full, pure)
        /\ domainSets' = AddDotted(AddTruthy(domainSets, full), pure)
        /\ freshDomainSets' = AddDotted(AddTruthy(freshDomainSets, full), pure)
        /\ UNCHANGED <<filterRuleWhitelistDomainSets, freshWhite, shouldStop>>

\* Promise.race in place of Promise.all: one fulfilled promise is enough
AnyResolved(waiting) == waiting # Producers

\* have all the promises given to Promise.all been fulfilled
AllResolved(waiting) == waiting = {}

\* the continuation of await Promise.all([...]): trie0 and the enforced
\* blacklist
AllSettled ==
    /\ pc = "download"
    /\ AllResolved(pending)
    /\ pc' = "imported"
    /\ tries' = tries \cup {"trie0"}
    /\ filterRuleWhitelistDomainSets' = DropEnforced(filterRuleWhitelistDomainSets)
    /\ freshWhite' = DropEnforced(freshWhite)
    /\ yielded' = NoYield
    /\ startWhite' = {}
    /\ UNCHANGED <<domainKeywordsSet, domainSuffixSet, domainSets, shouldStop,
                   dudupedDominArray, pending, runs, envVars, previous,
                   freshKeywords, freshSuffixes, freshDomainSets, freshOutput,
                   fetchVars>>

\* if (shouldStop) process.exit(1)
ProcessExit ==
    /\ pc = "imported"
    /\ shouldStop
    /\ pc' = "exited"
    /\ UNCHANGED <<filterRuleWhitelistDomainSets, domainKeywordsSet,
                   domainSuffixSet, domainSets, shouldStop, dudupedDominArray,
                   pending, runs, tries, envVars, yielded, startWhite, previous,
                   freshWhite, freshKeywords, freshSuffixes, freshDomainSets,
                   freshOutput, fetchVars>>

\* the loop over reject_sukka.conf
ReadSukkaConf ==
    /\ pc = "imported"
    /\ ~shouldStop
    /\ pc' = "sukka"
    /\ domainSets' = AddSukka(domainSets, sukkaConf)
    /\ freshDomainSets' = AddSukka(freshDomainSets, sukkaConf)
    /\ UNCHANGED <<filterRuleWhitelistDomainSets, domainKeywordsSet,
                   domainSuffixSet, shouldStop, dudupedDominArray, pending,
                   runs, tries, envVars, yielded, startWhite, previous, freshWhite,
                   freshKeywords, freshSuffixes, freshOutput, fetchVars>>

\* the loop over non_ip/reject.conf
ReadRejectConf ==
    /\ pc = "sukka"
    /\ pc' = "conf"
    /\ domainKeywordsSet' = domainKeywordsSet \cup ConfValues(rejectConf, KEYWORD)
    /\ domainSuffixSet' = domainSuffixSet \cup ConfValues(rejectConf, SUFFIX)
    /\ freshKeywords' = freshKeywords \cup ConfValues(rejectConf, KEYWORD)
    /\ freshSuffixes' = freshSuffixes \cup ConfValues(rejectConf, SUFFIX)
    /\ UNCHANGED <<filterRuleWhitelistDomainSets, domainSets, shouldStop,
                   dudupedDominArray, pending, runs, tries, envVars, yielded,
                   startWhite, previous, freshWhite, freshDomainSets, freshOutput,
                   fetchVars>>

\* traceSync('* Dedupe from black keywords/suffixes', ...)
Reconcile ==
    /\ pc = "conf"
    /\ pc' = "filtered"
    /\ tries' = tries \cup {"trie1", "trieWhite"}
    /\ previous' = domainSets
    /\ domainSets' = FilterStage(domainSets, filterRuleWhitelistDomainSets,
                                 domainKeywordsSet, domainSuffixSet)
    /\ freshDomainSets' = FilterStage(freshDomainSets, freshWhite,
                                      freshKeywords, freshSuffixes)
    /\ UNCHANGED <<filterRuleWhitelistDomainSets, domainKeywordsSet,
                   domainSuffixSet, shouldStop, dudupedDominArray, pending,
                   runs, envVars, yielded, startWhite, freshWhite,
                   freshKeywords, freshSuffixes, freshOutput, fetchVars>>

\* traceSync('* Dedupe from covered subdomain', ...); the sort and the
\* writers keep the entries
Dedupe ==
    /\ pc = "filtered"
    /\ pc' = "done"
    /\ dudupedDominArray' = DedupeStage(domainSets)
    /\ freshOutput' = DedupeStage(freshDomainSets)
    /\ UNCHANGED <<filterRuleWhitelistDomainSets, domainKeywordsSet,
                   domainSuffixSet, domainSets, shouldStop, pending, runs,
                   tries, envVars, yielded, startWhite, previous, freshWhite,
                   freshKeywords, freshSuffixes, freshDomainSets, fetchVars>>

Next ==
    \/ Start
    \/ HostsDone
    \/ FiltersDone
    \/ ExceptionsDone
    \/ PhishingDone
    \/ AllSettled
    \/ ProcessExit
    \/ ReadSukkaConf
    \/ ReadRejectConf
    \/ Reconcile
    \/ Dedupe

Spec == Init /\ [][Next]_vars

InitMalformed == BuildInit(TRUE, 1) /\ LocalFiles(TRUE) /\ FetchIdle

\* one invocation whose producers may yield an empty string or a bare dot
SpecMalformed == InitMalformed /\ [][Next]_vars

(***************************************************************************)
(* Properties of the build.                                                *)
(***************************************************************************)
Filtered == pc \in {"filtered", "done"}

\* C1: after the reconciliation filter stage, no blacklist entry is covered
\* by a whitelist suffix entry .X (it neither equals X nor ends with .X once
\* its leading dot is stripped) and none equals a whitelist exact entry.
C1_WhitelistReconciled ==
    Filtered =>
        \A w \in filterRuleWhitelistDomainSets, d \in domainSets :
            IF IsSuffixForm(w) THEN ~Covers(StripDot(w), d) ELSE d # w

\* C2: after the reconciliation filter stage, no remaining blacklist entry
\* contains a DOMAIN-KEYWORD value as a contiguous substring.
C2_NoKeywordLeft ==
    Filtered =>
        \A d \in domainSets, k \in domainKeywordsSet : ~Includes(d, k)

\* the filter stage deleted an entry for a keyword and kept another entry
C2_Witness ==
    /\ pc = "filtered"
    /\ domainSets # {}
    /\ \E d \in previous \ domainSets :
           /\ \E k \in domainKeywordsSet : Includes(d, k)
           /\ ~LoopDeletes(createTrie(filterRuleWhitelistDomainSets), {}, d)

\* C3: the deduplicated list holds no two distinct entries a, b where a is a
\* suffix entry .X and b (leading dot stripped) equals X or ends with .X.
C3_DedupeSound ==
    pc = "done" =>
        \A a, b \in dudupedDominArray :
            (a # b /\ IsSuffixForm(a)) => ~Covers(StripDot(a), b)

\* the deduper dropped a covered entry and kept at least two entries
C3_Witness ==
    /\ pc = "done"
    /\ Cardinality(dudupedDominArray) >= 2
    /\ \E a \in dudupedDominArray, b \in domainSets \ dudupedDominArray :
           IsSuffixForm(a) /\ Covers(StripDot(a), b)

\* C4 as stated: the result is a subset of the input, every dropped entry is
\* covered by a surviving suffix entry, X is dropped and .X is kept whenever
\* both are in the input, and an entry that no other input suffix entry
\* covers is never dropped.
C4_AsStated ==
    pc = "done" =>
        /\ dudupedDominArray \subseteq domainSets
        /\ \A e \in domainSets \ dudupedDominArray :
               \E s \in dudupedDominArray :
                   s # e /\ IsSuffixForm(s) /\ Covers(StripDot(s), e)
        /\ \A x \in domainSets :
               (~IsSuffixForm(x) /\ WithDot(x) \in domainSets) =>
                   (x \notin dudupedDominArray /\ WithDot(x) \in dudupedDominArray)
        /\ \A e \in domainSets :
               (\A s \in domainSets \ {e} :
                    ~(IsSuffixForm(s) /\ Covers(StripDot(s), e)))
                   => e \in dudupedDominArray

\* C4 amended: as stated, except that .X is kept only when no other suffix
\* entry of the input covers it.
C4_DedupeKeepsBroadest ==
    pc = "done" =>
        /\ dudupedDominArray \subseteq domainSets
        /\ \A e \in domainSets \ dudupedDominArray :
               \E s \in dudupedDominArray :
                   s # e /\ IsSuffixForm(s) /\ Covers(StripDot(s), e)
        /\ \A x \in domainSets :
               (~IsSuffixForm(x) /\ WithDot(x) \in domainSets) =>
                   /\ x \notin dudupedDominArray
                   /\ \/ WithDot(x) \in dudupedDominArray
                      \/ \E s \in domainSets \ {WithDot(x)} :
                             IsSuffixForm(s) /\ Covers(StripDot(s), WithDot(x))
        /\ \A e \in domainSets :
               (\A s \in domainSets \ {e} :
                    ~(IsSuffixForm(s) /\ Covers(StripDot(s), e)))
                   => e \in dudupedDominArray

\* X and .X both reached the deduper, X was dropped and .X kept
C4_Witness ==
    /\ pc = "done"
    /\ \E x \in domainSets :
           /\ ~IsSuffixForm(x)
           /\ WithDot(x) \in dudupedDominArray
           /\ x \notin dudupedDominArray
    /\ \E e \in dudupedDominArray : ~IsSuffixForm(e)

\* C5: after the reconciliation filter stage, no remaining blacklist entry is
\* covered by a DOMAIN-SUFFIX value X (equals X or ends with .X once its
\* leading dot is stripped).
C5_BlackSuffixReconciled ==
    Filtered =>
        \A x \in domainSuffixSet, d \in domainSets : ~Covers(x, d)

\* C6: the output of an invocation is the output a fresh process produces on
\* the same inputs.
C6_RunsIndependent ==
    pc = "done" => dudupedDominArray = freshOutput

\* C7: neither the empty string nor a bare dot is ever in the blacklist set.
C7_NoMalformedEntry ==
    EMPTY \notin domainSets /\ BARE \notin domainSets

\* the sets that the producers' results add up to, whatever their order
ExpectedBlack ==
    {h \in yielded["hosts"].black : h # <<>>}
        \cup yielded["filters"].black
        \cup {h \in yielded["phishing"].black : h # <<>>}
        \cup {WithDot(x) : x \in yielded["phishing"].pure}
ExpectedWhite ==
    startWhite \cup yielded["filters"].white
        \cup yielded["exceptions"].white \cup yielded["exceptions"].black

\* C8: once every producer has completed, the blacklist and the whitelist are
\* the unions of what the producers resolved to, whatever the completion
\* order; and no trie is built and no whitelist entry deleted before that.
C8_ProducersThenTries ==
    /\ []((pc = "download" /\ pending = {}) =>
            /\ domainSets = ExpectedBlack
            /\ filterRuleWhitelistDomainSets = ExpectedWhite)
    /\ [][(\/ tries' \ tries # {}
           \/ filterRuleWhitelistDomainSets \ filterRuleWhitelistDomainSets' # {})
          => pending = {}]_vars

\* all four producers have completed, two of them fed each set
C8_Witness ==
    /\ pc = "download"
    /\ pending = {}
    /\ yielded["hosts"].black # {}
    /\ yielded["filters"].black # {}
    /\ yielded["filters"].white # {}
    /\ yielded["exceptions"].white # {}
    /\ Cardinality(domainSets) >= 2

(***************************************************************************)
(* fetchAssetsWithout304 (Build/lib/fetch-assets.ts).  Attempt -1 is the   *)
(* primary URL, attempt i >= 0 is fallbackUrls[i].  A tick is 50 ms.       *)
(***************************************************************************)
BaseDelay == 50
StepDelay == 100
MinBody == 2

\* the sleep with the fallback's position taken from zero
SleepMsFromZero(index) == BaseDelay + index * StepDelay

\* 50 + (index + 1) * 100
SleepMs(index) == BaseDelay + (index + 1) * StepDelay

\* wait(ms) has run out after that many ticks
TimerDue(index, ticks) == ticks * BaseDelay >= SleepMs(index)

\* only a body of no characters at all taken for empty
EmptyResponseZero(text) == Len(text) < 1

\* text.length < 2
EmptyResponse(text) == Len(text) < MinBody

\* the body that the URL of attempt i serves, k characters long
Content(i, k) == [j \in 1..k |-> i]

Settled(att, state, err, text) ==
    [att EXCEPT !.pc = state, !.err = err, !.text = text]

\* the promise the call returned: the single attempt's own promise, or
\* Promise.any over the attempts (first fulfilment wins, rejection once every
\* attempt has rejected)
AnyResult(res, atts, order) ==
    IF res.state # "pending" THEN res
    ELSE IF order # <<>>
         THEN [state |-> "resolved", text |-> atts[order[1]].text]
    ELSE IF \A i \in DOMAIN atts : atts[i].pc = "rejected"
         THEN [state |-> "rejected", text |-> <<>>]
    ELSE res

\* fetchAssetsWithout304(url, fallbackUrls): the primary attempt runs up to
\* its $$fetch, every fallback up to its sleepWithAbort
Call ==
    \E n \in 0..MaxFallbacks :
        /\ result.state = "none"
        /\ fallbacks' = n
        /\ aborted' = FALSE
        /\ attempts' = [i \in (-1)..(n - 1) |->
                          IF i = -1
                          THEN [pc |-> "fetching", err |-> "", text |-> <<>>, at |-> clock]
                          ELSE [pc |-> "sleeping", err |-> "", text |-> <<>>, at |-> -1]]
        /\ result' = [state |-> "pending", text |-> <<>>]
        /\ UNCHANGED <<fulfilledOrder, clock, buildVars>>

Tick ==
    /\ result.state # "none"
    /\ clock < MaxTicks
    /\ clock' = clock + 1
    /\ UNCHANGED <<attempts, aborted, fulfilledOrder, result, fallbacks, buildVars>>

Step(i, att) ==
    /\ attempts' = [attempts EXCEPT ![i] = att]
    /\ result' = AnyResult(result, attempts', fulfilledOrder)
    /\ UNCHANGED <<aborted, fulfilledOrder, clock, fallbacks, buildVars>>

\* wait(ms).then(resolve): timers run out in the order of their delays
TimerFires ==
    \E i \in DOMAIN attempts :
        /\ attempts[i].pc = "sleeping"
        /\ TimerDue(i, clock)
        /\ \A j \in DOMAIN attempts : j < i => attempts[j].pc # "sleeping"
        /\ Step(i, [attempts[i] EXCEPT !.pc = "woken"])

\* after the sleep: if (controller.signal.aborted) throw; else $$fetch(url)
AfterSleep ==
    \E i \in DOMAIN attempts :
        /\ attempts[i].pc = "woken"
        /\ IF aborted
           THEN Step(i, Settled(attempts[i], "rejected", "CustomAbortError", <<>>))
           ELSE Step(i, [attempts[i] EXCEPT !.pc = "fetching", !.at = clock])

\* $$fetch resolves with a response
FetchResolves ==
    \E i \in DOMAIN attempts :
        /\ attempts[i].pc = "fetching"
        /\ ~aborted
        /\ Step(i, [attempts[i] EXCEPT !.pc = "reading"])

\* $$fetch rejects: a network error, or the signal was aborted
FetchRejects ==
    \E i \in DOMAIN attempts :
        /\ attempts[i].pc = "fetching"
        /\ Step(i, Settled(attempts[i], "rejected", "FetchError", <<>>))

\* res.text() rejects
TextFails ==
    \E i \in DOMAIN attempts :
        /\ attempts[i].pc = "reading"
        /\ Step(i, Settled(attempts[i], "rejected", "BodyError", <<>>))

\* res.text() resolves with a body too short
TextEmpty ==
    \E i \in DOMAIN attempts, k \in 0..MaxBody :
        /\ attempts[i].pc = "reading"
        /\ EmptyResponse(Content(i, k))
        /\ Step(i, Settled(attempts[i], "rejected", "ResponseError", Content(i, k)))

\* res.text() resolves with a body: controller.abort() runs the abort
\* listener of every sleeping attempt, and the text is returned
TextArrives ==
    \E i \in DOMAIN attempts, k \in 0..MaxBody :
        /\ attempts[i].pc = "reading"
        /\ ~EmptyResponse(Content(i, k))
        /\ aborted' = TRUE
        /\ attempts' = [j \in DOMAIN attempts |->
                          IF j = i THEN Settled(attempts[i], "fulfilled", "", Content(i, k))
                          ELSE IF attempts[j].pc = "sleeping"
                               THEN [attempts[j] EXCEPT !.pc = "cancelled"]
                          ELSE attempts[j]]
        /\ fulfilledOrder' = Append(fulfilledOrder, i)
        /\ result' = AnyResult(result, attempts', fulfilledOrder')
        /\ UNCHANGED <<clock, fallbacks, buildVars>>

\* catch { throw new CustomAbortError() } after the sleep was rejected
ThrowAbort ==
    \E i \in DOMAIN attempts :
        /\ attempts[i].pc = "cancelled"
        /\ Step(i, Settled(attempts[i], "rejected", "CustomAbortError", <<>>))

NextFetch ==
    \/ Call
    \/ Tick
    \/ TimerFires
    \/ AfterSleep
    \/ FetchResolves
    \/ FetchRejects
    \/ TextFails
    \/ TextEmpty
    \/ TextArrives
    \/ ThrowAbort

InitFetch ==
    /\ BuildInit(FALSE, 0)
    /\ sukkaConf = {COMMENT}
    /\ rejectConf = {Line(PLAIN, d_c)}
    /\ FetchIdle

SpecFetch == InitFetch /\ [][NextFetch]_vars

(***************************************************************************)
(* Properties of fetchAssetsWithout304.                                    *)
(***************************************************************************)
Requested(i) == attempts[i].at >= 0

\* C9: the call resolves only with a body of at least 2 characters served by
\* one of its URLs, the body of the first attempt to fulfil; an attempt whose
\* body is shorter than 2 characters is rejected; the call rejects only when
\* every attempt has rejected.
C9_FirstGoodBody ==
    /\ result.state = "resolved" =>
           /\ Len(result.text) >= 2
           /\ fulfilledOrder # <<>>
           /\ \E i \in DOMAIN attempts :
                  /\ i = fulfilledOrder[1]
                  /\ Requested(i)
                  /\ attempts[i].pc = "fulfilled"
                  /\ result.text = attempts[i].text
                  /\ \A j \in 1..Len(result.text) : result.text[j] = i
    /\ result.state \in {"pending", "resolved", "rejected"} =>
           \A i \in DOMAIN attempts :
               /\ (attempts[i].pc = "fulfilled" => Len(attempts[i].text) >= 2)
               /\ (attempts[i].err = "ResponseError" => attempts[i].pc = "rejected")
    /\ result.state = "rejected" =>
           \A i \in DOMAIN attempts : attempts[i].pc = "rejected"

\* a fallback's body was returned after the primary's body came back too short
C9_Witness ==
    /\ result.state = "resolved"
    /\ fallbacks >= 1
    /\ fulfilledOrder[1] >= 0
    /\ attempts[-1].err = "ResponseError"
    /\ Len(attempts[-1].text) = 1

====
